---- MODULE Spec2Model ----
(***************************************************************************)
(* Model of the ruuvi-home ingestion path: the Data Format 5 frame decoder *)
(* (ruuvi-decoder/src/decoder.rs) and the MQTT stream that feeds it        *)
(* (mqtt-reader/src/read/mqtt_stream.rs).                                  *)
(*                                                                         *)
(* Text is a sequence of one-character strings.  An f32 is kept as the     *)
(* exact real it is computed from, [root, a, b]: a/b when root = 1 and the *)
(* square root of a * 65536 + b when root = 2; the scalings of the decoder *)
(* are injective in f32 over the ranges of their 16-bit operands, so       *)
(* equality of these records is equality of the f32 values.                *)
(***************************************************************************)
EXTENDS Integers, Sequences, FiniteSets, TLC

VARIABLES
    src,        \* the sensor frame and its wrapping the input text was rendered from
    data,       \* the text handed to decode_data / carried in the envelope's data
    result,     \* what decode_data returned
    pc,         \* position of the caller
    polled,     \* number of notifications the event loop has delivered
    yielded,    \* the DecodedMessages the stream has yielded, in order
    dropped,    \* number of publish packets the stream logged and dropped
    ended,      \* the stream has ended
    stdout,     \* the lines written to standard output, in order
    calls,      \* the invocations of decode_data in progress: input, position, result
    locals,     \* the local byte_data of each invocation
    payload,    \* the payload handed to RuuviGatewayMessage::try_from
    parsed,     \* what try_from returned
    arrived,    \* the notifications the event loop has delivered, in order
    db,         \* the rows of sensor_data, in insertion order
    pending,    \* the events write_sensor_data has still to insert
    wret,       \* what the last call of write_sensor_data returned
    written,    \* the arguments of the calls of write_sensor_data, in order
    logged,     \* number of "Failed to write to PostgreSQL" lines main has logged
    mret,       \* what main returned
    request,    \* the HTTP request and its environment
    response,   \* the answer of the library router to the request
    response_bin \* the answer of the router of the binary to the request

vars == <<src, data, result, pc, polled, yielded, dropped, ended,
          stdout, calls, locals, payload, parsed, arrived,
          db, pending, wret, written, logged, mret,
          request, response, response_bin>>

(***************************************************************************)
(* Option and Result                                                       *)
(***************************************************************************)
None == <<>>
Some(v) == <<v>>
is_some(o) == o # <<>>
unwrap_or(o, d) == IF o = <<>> THEN d ELSE o[1]

Ok(v) == [kind |-> "ok", val |-> v]
Err(e) == [kind |-> "err", err |-> e]
Panic == [kind |-> "panic"]
NoResult == [kind |-> "none"]

Range(f) == {f[i] : i \in DOMAIN f}

(***************************************************************************)
(* Numbers                                                                 *)
(***************************************************************************)
Abs(n) == IF n < 0 THEN -n ELSE n

RECURSIVE GCD(_, _)
GCD(a, b) == IF b = 0 THEN a ELSE GCD(b, a % b)

\* the f32 quotient n / d
F32Div(n, d) ==
    LET g == GCD(Abs(n), d)
    IN  [root |-> 1, a |-> n \div g, b |-> d \div g]

F32Zero == F32Div(0, 1)

\* two big-endian bytes read as u16 ('H') and as i16 ('h')
be_u16(b0, b1) == b0 * 256 + b1
be_i16(b0, b1) == IF be_u16(b0, b1) >= 32768 THEN be_u16(b0, b1) - 65536
                  ELSE be_u16(b0, b1)

\* `x as i8` of a small non-negative integer
as_i8(x) == IF x % 256 >= 128 THEN (x % 256) - 256 ELSE x % 256

(***************************************************************************)
(* Hex text                                                                *)
(***************************************************************************)
LowerHex == <<"0", "1", "2", "3", "4", "5", "6", "7", "8", "9",
              "a", "b", "c", "d", "e", "f">>
UpperHex == <<"0", "1", "2", "3", "4", "5", "6", "7", "8", "9",
              "A", "B", "C", "D", "E", "F">>

\* a character outside ASCII: two bytes in UTF-8
WideChar == "U+00E9"

RECURSIVE byte_len(_)
byte_len(s) ==
    LET utf8_len(c) == IF c = WideChar THEN 2 ELSE 1
    IN  IF s = <<>> THEN 0 ELSE utf8_len(Head(s)) + byte_len(Tail(s))

\* is_hex as it would be if only the upper-case digits were accepted
is_hex_upper_only(c) == \E i \in 1..16 : UpperHex[i] = c

is_hex(c) == \E i \in 1..16 : LowerHex[i] = c \/ UpperHex[i] = c

hex_val(c) == (CHOOSE i \in 1..16 : LowerHex[i] = c \/ UpperHex[i] = c) - 1

\* hex_decode as it would be if a character that is no hex digit were read as 0
\* and a last unpaired digit dropped
hex_decode_lenient(s) ==
    Ok([i \in 1..(Len(s) \div 2) |->
            16 * (IF is_hex(s[2 * i - 1]) THEN hex_val(s[2 * i - 1]) ELSE 0)
            + (IF is_hex(s[2 * i]) THEN hex_val(s[2 * i]) ELSE 0)])

\* hex::decode: odd byte length is reported first, then the first bad character
hex_decode(s) ==
    IF byte_len(s) % 2 # 0 THEN Err("OddLength")
    ELSE IF \E i \in 1..Len(s) : ~is_hex(s[i]) THEN Err("InvalidHexCharacter")
    ELSE Ok([i \in 1..(Len(s) \div 2) |->
                16 * hex_val(s[2 * i - 1]) + hex_val(s[2 * i])])

\* the byte as it would be formatted by {:x}, without the zero padding
fmt_x_unpadded(b) ==
    IF b < 16 THEN <<LowerHex[b + 1]>>
    ELSE <<LowerHex[(b \div 16) + 1], LowerHex[(b % 16) + 1]>>

\* {:02x}
fmt_02x(b) == <<LowerHex[(b \div 16) + 1], LowerHex[(b % 16) + 1]>>

(***************************************************************************)
(* Df5Decoder (decoder.rs).  ByteDataDf5 is the 16-tuple unpacked from the *)
(* frame; field k of the source (data.k) is F(data, k).                    *)
(***************************************************************************)
FrameChars == 48
FrameBytes == 24

F(d, k) == d[k + 1]

\* take as it would be if the whole text were collected
take_all(s, n) == s

\* data.chars().take(48).collect::<String>()
take(s, n) == SubSeq(s, 1, IF Len(s) < n THEN Len(s) ELSE n)

\* the tuple of a 24-byte buffer
unpacked(b) ==
    <<b[1],
      be_i16(b[2], b[3]),
      be_u16(b[4], b[5]),
      be_u16(b[6], b[7]),
      be_i16(b[8], b[9]),
      be_i16(b[10], b[11]),
      be_i16(b[12], b[13]),
      be_u16(b[14], b[15]),
      b[16],
      be_u16(b[17], b[18]),
      b[19], b[20], b[21], b[22], b[23], b[24]>>

\* unpack as it would be if a short buffer were filled up with zero bytes
unpack_zero_fill(b) ==
    Ok(unpacked([i \in 1..FrameBytes |-> IF i <= Len(b) THEN b[i] ELSE 0]))

\* unpack as it would be if a format byte other than 5 were refused
unpack_format_checked(b) ==
    IF Len(b) # FrameBytes THEN Err("UnpackSize")
    ELSE IF b[1] # 5 THEN Err("UnknownFormat")
    ELSE Ok(unpacked(b))

\* structure!(">BhHHhhhHBH6B").unpack(&byte_data)
unpack(b) ==
    IF Len(b) # FrameBytes THEN Err("UnpackSize")
    ELSE Ok(unpacked(b))

get_temperature(d) ==
    IF F(d, 1) = -32768 THEN None ELSE Some(F32Div(F(d, 1), 200))

\* get_humidity as it would be if raw 0 were taken for "no value" too
get_humidity_zero_absent(d) ==
    IF F(d, 2) = 65535 \/ F(d, 2) = 0 THEN None ELSE Some(F32Div(F(d, 2), 400))

get_humidity(d) ==
    IF F(d, 2) = 65535 THEN None ELSE Some(F32Div(F(d, 2), 400))

\* the sum as it would be if taken in u16 and wrapped
u16_wrapping_add(x, y) == (x + y) % 65536

\* u32::from(x) + y with x a u16 and y below 2^31: the u32 sum cannot wrap
u32_add(x, y) == x + y

\* get_pressure as it would be if the sentinel were tested on the humidity word
get_pressure_checks_humidity(d) ==
    IF F(d, 2) = 65535 THEN None
    ELSE Some(F32Div(u32_add(F(d, 3), 50000), 100))

get_pressure(d) ==
    IF F(d, 3) = 65535 THEN None
    ELSE Some(F32Div(u32_add(F(d, 3), 50000), 100))

get_acceleration(d) ==
    IF F(d, 4) = -32768 \/ F(d, 5) = -32768 \/ F(d, 6) = -32768
    THEN <<None, None, None>>
    ELSE <<Some(F(d, 4)), Some(F(d, 5)), Some(F(d, 6))>>

\* get_powerinfo as it would be with the mask 0x003F, one bit too wide
get_powerinfo_wide_mask(d) == <<F(d, 7) \div 32, as_i8(F(d, 7) % 64)>>

get_powerinfo(d) == <<F(d, 7) \div 32, as_i8(F(d, 7) % 32)>>

\* get_battery as it would be if the sentinel were tested on the whole word
get_battery_whole_word(d) ==
    IF F(d, 7) = 65535 THEN None ELSE Some((F(d, 7) \div 32) + 1600)

\* battery_voltage + 1600 is a u16 sum
get_battery(d) ==
    LET battery_voltage == get_powerinfo(d)[1]
    IN  IF battery_voltage = 2047 THEN None ELSE Some(battery_voltage + 1600)

\* -40 + (i16::from(tx_power) * 2) as i8 is an i8 sum
get_txpower(d) ==
    LET tx_power == get_powerinfo(d)[2]
    IN  IF tx_power = 31 THEN None ELSE Some(-40 + as_i8(tx_power * 2))

\* get_movementcounter as it would be if the byte were unpacked signed ('b')
get_movementcounter_signed(d) == as_i8(F(d, 8))

get_movementcounter(d) == F(d, 8)

get_measurementsequencenumber(d) == F(d, 9)

get_mac(d) ==
    fmt_02x(F(d, 10)) \o fmt_02x(F(d, 11)) \o fmt_02x(F(d, 12)) \o
    fmt_02x(F(d, 13)) \o fmt_02x(F(d, 14)) \o fmt_02x(F(d, 15))

\* the magnitude computed in decode_data from the three components
get_magnitude(acc) ==
    LET \* (x^2 + y^2 + z^2 as f32).sqrt(), the sum carried in two 16-bit limbs
        F32Norm(x, y, z) ==
            LET lo == ((x * x) % 65536) + ((y * y) % 65536) + ((z * z) % 65536)
                hi == ((x * x) \div 65536) + ((y * y) \div 65536) + ((z * z) \div 65536)
                        + (lo \div 65536)
            IN  IF hi = 0 /\ lo = 0 THEN F32Zero
                ELSE [root |-> 2, a |-> hi, b |-> lo % 65536]
    IN  IF is_some(acc[1]) /\ is_some(acc[2]) /\ is_some(acc[3])
        THEN Some(F32Norm(acc[1][1], acc[2][1], acc[3][1]))
        ELSE None

\* println!("x: {acc_x_val}, y: {acc_y_val}, z: {acc_z_val}"), reached when the
\* three components are there: the lines it writes
printed(d) ==
    LET acc == get_acceleration(d)
    IN  IF is_some(acc[1]) /\ is_some(acc[2]) /\ is_some(acc[3])
        THEN <<[x |-> acc[1][1], y |-> acc[2][1], z |-> acc[3][1]]>>
        ELSE <<>>

\* the SensorData5 literal of decode_data
SensorData5(d) ==
    LET acc == get_acceleration(d)
    IN  [data_format |-> 5,
         humidity |-> get_humidity(d),
         temperature |-> unwrap_or(get_temperature(d), F32Zero),
         pressure |-> get_pressure(d),
         acceleration |-> unwrap_or(get_magnitude(acc), F32Zero),
         acceleration_x |-> unwrap_or(acc[1], 0),
         acceleration_y |-> unwrap_or(acc[2], 0),
         acceleration_z |-> unwrap_or(acc[3], 0),
         tx_power |-> get_txpower(d),
         battery |-> get_battery(d),
         movement_counter |-> get_movementcounter(d),
         measurement_sequence_number |-> get_measurementsequencenumber(d),
         mac |-> get_mac(d),
         rssi |-> None]

\* an integer sum left its type: a panic of the overflow check
overflows(r) ==
    \/ is_some(r.battery) /\ r.battery[1] \notin 0..65535
    \/ is_some(r.tx_power) /\ r.tx_power[1] \notin -128..127

decode_data(s) ==
    LET hex == hex_decode(take(s, FrameChars))
    IN  IF hex.kind = "err" THEN hex
        ELSE LET byte_data == unpack(hex.val)
             IN  IF byte_data.kind = "err" THEN byte_data
                 ELSE IF overflows(SensorData5(byte_data.val)) THEN Panic
                 ELSE Ok(SensorData5(byte_data.val))

\* what one call of decode_data writes to standard output
decode_output(s) ==
    LET hex == hex_decode(take(s, FrameChars))
    IN  IF hex.kind = "err" THEN <<>>
        ELSE LET byte_data == unpack(hex.val)
             IN  IF byte_data.kind = "err" THEN <<>>
                 ELSE printed(byte_data.val)

(***************************************************************************)
(* Inputs.  A source is a sensor frame (the raw field values a tag puts on *)
(* the air) together with the way it reaches the decoder: the advertising  *)
(* bytes in front of it, the letter case of the hex text, how many of its  *)
(* 48 characters arrive, one character replaced, and the text after it.    *)
(***************************************************************************)
\* the frame of tests/fixtures and of test_df5_decoder_direct:
\* 05 0F18 FFFF FFFF FFF0 FFEC 0414 AA96 A8 DE8E F797E36ED811
BaseFrame ==
    [fmt |-> 5, temp |-> 3864, hum |-> 65535, pres |-> 65535,
     ax |-> -16, ay |-> -20, az |-> 1044, power |-> 43670,
     move |-> 168, seq |-> 56974, mac |-> <<247, 151, 227, 110, 216, 17>>]

\* every field holds a measurement, none its sentinel
PlainFrame ==
    [fmt |-> 5, temp |-> 0, hum |-> 0, pres |-> 0,
     ax |-> 0, ay |-> 0, az |-> 0, power |-> 0,
     move |-> 0, seq |-> 0, mac |-> <<0, 10, 255, 0, 1, 16>>]

AccRaw == {-32768, -32767, -20, 0, 1044, 32767}
BatteryBits == {0, 1, 1364, 2046, 2047}

Frames ==
    LET TempRaw == {-32768, -32767, -1, 0, 3864, 32767}
        HumRaw == {0, 1, 21000, 65534, 65535}
        PresRaw == {0, 15535, 15536, 51325, 65534, 65535}
        TxBits == {0, 1, 22, 30, 31}
        MoveRaw == {0, 168, 255}
        SeqRaw == {0, 56974, 65535}
        FmtRaw == {5, 6, 255}
    IN  {[BaseFrame EXCEPT !.temp = t, !.hum = h, !.pres = p] :
            t \in TempRaw, h \in HumRaw, p \in PresRaw}
        \cup {[BaseFrame EXCEPT !.ax = x, !.ay = y, !.az = z] :
            x \in AccRaw, y \in AccRaw, z \in AccRaw}
        \cup {[f EXCEPT !.power = b * 32 + t] :
            f \in {BaseFrame, PlainFrame}, b \in BatteryBits, t \in TxBits}
        \cup {[f EXCEPT !.fmt = v, !.move = m, !.seq = q] :
            f \in {BaseFrame, PlainFrame}, v \in FmtRaw, m \in MoveRaw,
            q \in SeqRaw}

\* the frames whose wrapping is varied
WrappedFrames ==
    {BaseFrame, PlainFrame,
     [BaseFrame EXCEPT !.temp = -32768, !.ax = -32768],
     [PlainFrame EXCEPT !.power = 65535, !.seq = 65535]}

\* a value as two big-endian bytes
be_bytes(v) == <<(v % 65536) \div 256, v % 256>>

\* the 24 bytes of a frame, in the layout >BhHHhhhHBH6B
frame_bytes(f) ==
    <<f.fmt>> \o be_bytes(f.temp) \o be_bytes(f.hum) \o be_bytes(f.pres)
    \o be_bytes(f.ax) \o be_bytes(f.ay) \o be_bytes(f.az) \o be_bytes(f.power)
    \o <<f.move>> \o be_bytes(f.seq) \o f.mac

hex_text(bytes, casing) ==
    LET \* digit k of the text in the given letter case; "mixed" alternates
        hex_digit(v, k) ==
            IF casing = "upper" \/ (casing = "mixed" /\ k % 2 = 0)
            THEN UpperHex[v + 1] ELSE LowerHex[v + 1]
    IN  [k \in 1..(2 * Len(bytes)) |->
            LET b == bytes[(k + 1) \div 2]
            IN  hex_digit(IF k % 2 = 1 THEN b \div 16 ELSE b % 16, k)]

\* flags 02 01 06, then length 1B, type FF and the manufacturer id 99 04
AdvPrefix == <<2, 1, 6, 27, 255, 153, 4>>
\* no wrapping, the manufacturer-specific structure alone (FF 99 04), or the
\* whole advertisement
Prefixes == {<<>>, <<255, 153, 4>>, AdvPrefix}

Casings == {"upper", "lower", "mixed"}

\* one character replaced: none, or the character at a position
NoJunk == [at |-> 0, ch |-> "0"]

\* text after the frame, at most MaxTail characters of it
MaxTail == 2

Source(f, pre, casing, cut, junk, tail) ==
    [frame |-> f, prefix |-> pre, casing |-> casing, cut |-> cut,
     junk |-> junk, tail |-> tail]

Sources ==
    LET \* how many characters of the frame's text arrive
        Cuts == {0, 2, 3, 24, 40, 46, 47, 48}
        JunkChars == {" ", "G", "x", WideChar}
        Junks == {[at |-> i, ch |-> c] : i \in {1, 2, 47, 48}, c \in JunkChars}
        TailChars == {"C", "8", "z"}
        Tails == UNION {[1..n -> TailChars] : n \in 0..MaxTail}
    IN  {Source(f, <<>>, "upper", FrameChars, NoJunk, <<>>) : f \in Frames}
        \cup {Source(f, pre, c, FrameChars, NoJunk, t) :
                f \in WrappedFrames, pre \in Prefixes, c \in Casings,
                t \in Tails}
        \cup {Source(f, pre, c, cut, NoJunk, <<>>) :
                f \in WrappedFrames, pre \in Prefixes, c \in Casings,
                cut \in Cuts}
        \cup {Source(f, <<>>, "upper", cut, j, t) :
                f \in WrappedFrames, cut \in {47, 48}, j \in Junks,
                t \in {<<>>, <<"C">>}}

\* the hex text of the advertisement
render(s) ==
    LET \* the text of the frame as it arrives
        frame_text ==
            LET full == SubSeq(hex_text(frame_bytes(s.frame), s.casing), 1, s.cut)
            IN  [k \in 1..Len(full) |-> IF k = s.junk.at THEN s.junk.ch ELSE full[k]]
    IN  hex_text(s.prefix, s.casing) \o frame_text \o s.tail

(***************************************************************************)
(* The envelope (ruuvi_gateway_message.rs).  A payload is a byte buffer:   *)
(* either the text of a JSON object, kept as the values of its keys, or    *)
(* something serde_json cannot read as one.                                *)
(***************************************************************************)
\* a JSON value: a string (its text), a number, or null
JStr(v) == [t |-> "string", s |-> v, n |-> 0]
JNum(v) == [t |-> "number", s |-> <<>>, n |-> v]
JNull == [t |-> "null", s |-> <<>>, n |-> 0]

JsonObject(obj) == [json |-> TRUE, obj |-> obj]
Garbage == [json |-> FALSE, obj |-> <<>>]

\* the fields of RuuviGatewayMessage
EnvelopeFields == {"gw_mac", "rssi", "gwts", "ts", "data", "coords"}

\* the JSON value can be read as the field's type: String, i16, u32 (no
\* number of the model reaches the upper end of u32)
fits(k, j) ==
    CASE k \in {"gw_mac", "data", "coords"} -> j.t = "string"
      [] k = "rssi" -> j.t = "number" /\ j.n \in -32768..32767
      [] k \in {"gwts", "ts"} -> j.t = "number" /\ j.n >= 0

\* the value of field k read from the JSON value j
field_value(k, j) == IF k \in {"gw_mac", "data", "coords"} THEN j.s ELSE j.n

\* the JSON of an envelope the gateway sends for the source s, with the
\* signal strength it measured
EnvelopeWith(s, rssi) ==
    LET GatewayMac ==
            <<"C", "8", ":", "2", "5", ":", "2", "D", ":", "8", "E", ":", "9",
              "C", ":", "2", "C">>
    IN  JsonObject([gw_mac |-> JStr(GatewayMac), rssi |-> JNum(rssi),
                    gwts |-> JNum(1720000000), ts |-> JNum(1720000000),
                    data |-> JStr(render(s)), coords |-> JStr(<<>>)])

\* the payload of a publish packet: the JSON of an envelope
Envelope(s) == EnvelopeWith(s, -70)

\* try_from as it would be with #[serde(default)] on coords
try_from_default_coords(p) ==
    IF ~p.json THEN Err("syntax")
    ELSE IF \E k \in EnvelopeFields \cap DOMAIN p.obj : ~fits(k, p.obj[k])
    THEN Err("invalid type")
    ELSE IF \E k \in EnvelopeFields \ {"coords"} : k \notin DOMAIN p.obj
    THEN Err("missing field")
    ELSE Ok([k \in EnvelopeFields |->
                IF k \in DOMAIN p.obj THEN field_value(k, p.obj[k]) ELSE <<>>])

\* RuuviGatewayMessage::try_from: serde_json::from_slice into the derived
\* Deserialize: a value of the wrong type is refused where it is met, a
\* missing field at the end of the object, keys that are no field are skipped
try_from(p) ==
    IF ~p.json THEN Err("syntax")
    ELSE IF \E k \in EnvelopeFields \cap DOMAIN p.obj : ~fits(k, p.obj[k])
    THEN Err("invalid type")
    ELSE IF \E k \in EnvelopeFields : k \notin DOMAIN p.obj
    THEN Err("missing field")
    ELSE Ok([k \in EnvelopeFields |-> field_value(k, p.obj[k])])

\* the state of the parts of the program that a specification leaves alone
NoSource == Source(PlainFrame, <<>>, "upper", 0, NoJunk, <<>>)

DecoderIdle == src = NoSource /\ data = <<>> /\ result = NoResult
ConcIdle == calls = <<>> /\ locals = <<>>
ParserIdle == payload = Garbage /\ parsed = NoResult
StreamIdle ==
    polled = 0 /\ yielded = <<>> /\ dropped = 0 /\ ended = FALSE /\ arrived = <<>>

NoRequest == [route |-> "none"]
NoResponse == [kind |-> "none"]

WriterIdle == db = <<>> /\ pending = <<>> /\ wret = NoResult /\ written = <<>>
MainIdle == logged = 0 /\ mret = NoResult
ApiIdle == request = NoRequest /\ response = NoResponse /\ response_bin = NoResponse

(***************************************************************************)
(* A caller of the decoder: one call of decode_data on an input text, as   *)
(* the tests of decoder.rs make it.                                        *)
(***************************************************************************)
Init ==
    /\ src \in Sources
    /\ data = render(src)
    /\ result = NoResult
    /\ pc = "call"
    /\ stdout = <<>>
    /\ ConcIdle /\ ParserIdle /\ StreamIdle
    /\ WriterIdle /\ MainIdle /\ ApiIdle

Decode ==
    /\ pc = "call"
    /\ result' = decode_data(data)
    /\ stdout' = stdout \o decode_output(data)
    /\ pc' = "done"
    /\ UNCHANGED <<src, data, polled, yielded, dropped, ended,
                   calls, locals, payload, parsed, arrived, db, pending, wret, written, logged, mret,
                   request, response, response_bin>>

Next == Decode

Spec == Init /\ [][Next]_vars

(***************************************************************************)
(* Several invocations of decode_data in progress at once on one           *)
(* Df5Decoder (a unit struct, shared by reference).  An invocation runs in *)
(* three steps, hex::decode, unpack, and the building of the reading; what *)
(* it keeps between them is its local byte_data.                           *)
(***************************************************************************)
MaxCalls == 2

\* byte_data as it would be if the decoder kept it in one place for all
\* invocations
frame_of_shared(i) == 1

\* where invocation i keeps its local byte_data: in its own stack frame
frame_of(i) == i

ConcInit ==
    LET ConcSources ==
            {Source(BaseFrame, <<>>, "upper", FrameChars, NoJunk, <<>>),
             Source(PlainFrame, <<>>, "lower", FrameChars, NoJunk, <<"C">>),
             Source([BaseFrame EXCEPT !.temp = -32768, !.ax = -32768], <<>>, "upper",
                    FrameChars, NoJunk, <<>>),
             Source(BaseFrame, AdvPrefix, "upper", FrameChars, NoJunk, <<>>),
             Source(BaseFrame, <<>>, "upper", 40, NoJunk, <<>>),
             Source(PlainFrame, <<>>, "upper", FrameChars, [at |-> 2, ch |-> " "], <<>>)}
    IN  /\ calls \in [1..MaxCalls ->
                        {[input |-> render(s), at |-> "hex", ret |-> NoResult] :
                            s \in ConcSources}]
        /\ locals = [i \in 1..MaxCalls |-> <<>>]
        /\ pc = "concurrent"
        /\ stdout = <<>>
        /\ DecoderIdle /\ ParserIdle /\ StreamIdle
        /\ WriterIdle /\ MainIdle /\ ApiIdle

Return(i, r) == calls' = [calls EXCEPT ![i].at = "done", ![i].ret = r]

\* let byte_data = hex::decode(data.chars().take(48).collect::<String>())?
HexStep(i) ==
    /\ pc = "concurrent" /\ calls[i].at = "hex"
    /\ LET hex == hex_decode(take(calls[i].input, FrameChars))
       IN  IF hex.kind = "err"
           THEN Return(i, hex) /\ UNCHANGED locals
           ELSE /\ locals' = [locals EXCEPT ![frame_of(i)] = hex.val]
                /\ calls' = [calls EXCEPT ![i].at = "unpack"]
    /\ UNCHANGED <<src, data, result, pc, polled, yielded, dropped, ended,
                   stdout, payload, parsed, arrived, db, pending, wret, written, logged, mret,
                   request, response, response_bin>>

\* let byte_data = data_structure.unpack(&byte_data)?
UnpackStep(i) ==
    /\ pc = "concurrent" /\ calls[i].at = "unpack"
    /\ LET byte_data == unpack(locals[frame_of(i)])
       IN  IF byte_data.kind = "err"
           THEN Return(i, byte_data) /\ UNCHANGED locals
           ELSE /\ locals' = [locals EXCEPT ![frame_of(i)] = byte_data.val]
                /\ calls' = [calls EXCEPT ![i].at = "build"]
    /\ UNCHANGED <<src, data, result, pc, polled, yielded, dropped, ended,
                   stdout, payload, parsed, arrived, db, pending, wret, written, logged, mret,
                   request, response, response_bin>>

\* the acceleration, its println, and the reading
BuildStep(i) ==
    /\ pc = "concurrent" /\ calls[i].at = "build"
    /\ LET byte_data == locals[frame_of(i)]
       IN  /\ stdout' = stdout \o printed(byte_data)
           /\ Return(i, IF overflows(SensorData5(byte_data)) THEN Panic
                        ELSE Ok(SensorData5(byte_data)))
    /\ UNCHANGED <<src, data, result, pc, polled, yielded, dropped, ended,
                   locals, payload, parsed, arrived, db, pending, wret, written, logged, mret,
                   request, response, response_bin>>

ConcNext == \E i \in 1..MaxCalls : HexStep(i) \/ UnpackStep(i) \/ BuildStep(i)

ConcSpec == ConcInit /\ [][ConcNext]_vars

(***************************************************************************)
(* A caller of the envelope parser: one call of try_from on a payload.     *)
(***************************************************************************)
\* the frames and wrappings the gateway publishes
StreamSources ==
    {Source(f, pre, "upper", cut, NoJunk, <<>>) :
        f \in WrappedFrames, pre \in Prefixes, cut \in {40, FrameChars}}

\* the sources whose envelopes are varied
VariedSources ==
    {Source(BaseFrame, AdvPrefix, "upper", FrameChars, NoJunk, <<>>),
     Source(PlainFrame, <<>>, "lower", 40, NoJunk, <<>>),
     Source(BaseFrame, <<>>, "mixed", FrameChars, [at |-> 2, ch |-> " "], <<"z">>)}

without(p, k) == JsonObject([f \in (DOMAIN p.obj) \ {k} |-> p.obj[f]])
with(p, k, j) ==
    JsonObject([f \in (DOMAIN p.obj) \cup {k} |-> IF f = k THEN j ELSE p.obj[f]])

\* an envelope with one key left out, with one value null, a number where a
\* string belongs or a string where a number belongs, an rssi at and beyond
\* the ends of i16, a negative timestamp, and a key that is no field
Variants(p) ==
    {without(p, k) : k \in EnvelopeFields}
    \cup {with(p, k, JNull) : k \in EnvelopeFields}
    \cup {with(p, k, JNum(7)) : k \in {"gw_mac", "data", "coords"}}
    \cup {with(p, k, JStr(<<"7">>)) : k \in {"rssi", "gwts", "ts"}}
    \cup {with(p, "rssi", JNum(v)) : v \in {-32769, -32768, 0, 32767, 32768}}
    \cup {with(p, "gwts", JNum(-1)), with(p, "ts", JNum(0))}
    \cup {with(p, "aoa", JNum(3)), with(without(p, "rssi"), "aoa", JNum(3))}
    \cup {with(p, "coords", JStr(<<"6", "0", ",", "2", "4">>))}

ParseInit ==
    LET Payloads ==
            {Garbage, JsonObject(<<>>)}
            \cup {Envelope(s) : s \in StreamSources \cup VariedSources}
            \cup UNION {Variants(Envelope(s)) : s \in VariedSources}
    IN  /\ payload \in Payloads
        /\ parsed = NoResult
        /\ pc = "parse"
        /\ stdout = <<>>
        /\ DecoderIdle /\ ConcIdle /\ StreamIdle
        /\ WriterIdle /\ MainIdle /\ ApiIdle

Parse ==
    /\ pc = "parse"
    /\ parsed' = try_from(payload)
    /\ pc' = "parsed"
    /\ UNCHANGED <<src, data, result, polled, yielded, dropped, ended,
                   stdout, calls, locals, payload, arrived, db, pending, wret, written, logged, mret,
                   request, response, response_bin>>

ParseNext == Parse

ParseSpec == ParseInit /\ [][ParseNext]_vars

(***************************************************************************)
(* The MQTT stream (mqtt_stream.rs).  The event loop delivers one          *)
(* notification per poll: a publish packet, whose payload is the JSON text *)
(* of an envelope or something else, another incoming packet, or an error. *)
(***************************************************************************)
MaxPolls == 2

Publish(p) == [kind |-> "publish", payload |-> p]
OtherPacket == [kind |-> "other", payload |-> Garbage]
ConnectionError == [kind |-> "error", payload |-> Garbage]

DecodedMessage(message, sensor_data) ==
    [message |-> message, sensor_data |-> sensor_data]

\* on_publish as it would be if a decoding error ended the loop
on_publish_stop_on_error(p) ==
    LET parsed_ == try_from(p)
    IN  IF parsed_.kind = "err" THEN [yield |-> <<>>, drop |-> 1, stop |-> FALSE]
        ELSE LET decoded == decode_data(parsed_.val.data)
             IN  IF decoded.kind = "ok"
                 THEN [yield |-> <<DecodedMessage(parsed_.val, decoded.val)>>,
                       drop |-> 0, stop |-> FALSE]
                 ELSE [yield |-> <<>>, drop |-> 1, stop |-> TRUE]

\* the body of the while-let loop of to_stream for a publish packet: what is
\* yielded (at most one message), whether the packet is logged and dropped,
\* and whether the loop is left (no arm leaves it)
on_publish(p) ==
    LET parsed_ == try_from(p)
    IN  IF parsed_.kind = "err" THEN [yield |-> <<>>, drop |-> 1, stop |-> FALSE]
        ELSE LET decoded == decode_data(parsed_.val.data)
             IN  IF decoded.kind = "ok"
                 THEN [yield |-> <<DecodedMessage(parsed_.val, decoded.val)>>,
                       drop |-> 0, stop |-> FALSE]
                 ELSE IF decoded.kind = "err"
                 THEN [yield |-> <<>>, drop |-> 1, stop |-> FALSE]
                 ELSE [yield |-> <<>>, drop |-> 0, stop |-> TRUE]

\* the loop as it would be if it went on polling after an error
on_poll_error_retry == [stop |-> FALSE]

\* while let Ok(notification) = eventloop.poll().await: an Err leaves the loop
on_poll_error == [stop |-> TRUE]

StreamInit ==
    /\ pc = "stream"
    /\ stdout = <<>>
    /\ DecoderIdle /\ ConcIdle /\ ParserIdle /\ StreamIdle
    /\ WriterIdle /\ MainIdle /\ ApiIdle

\* the publish arm of the loop, for the payload p
HandlePublish(p) ==
    LET \* what the publish arm writes to standard output: the println of decode_data
        publish_output ==
            IF try_from(p).kind = "ok" THEN decode_output(try_from(p).val.data) ELSE <<>>
        out == on_publish(p)
    IN  /\ payload' = p
        /\ parsed' = try_from(p)
        /\ yielded' = yielded \o out.yield
        /\ dropped' = dropped + out.drop
        /\ ended' = out.stop
        /\ stdout' = stdout \o publish_output
        /\ arrived' = Append(arrived, Publish(p))
        /\ polled' = polled + 1

\* poll returns a publish packet carrying an envelope
PollEnvelope ==
    /\ pc = "stream" /\ ~ended /\ polled < MaxPolls
    /\ \E s \in StreamSources :
        /\ src' = s
        /\ data' = render(s)
        /\ result' = decode_data(render(s))
        /\ HandlePublish(Envelope(s))
    /\ UNCHANGED <<pc, calls, locals, db, pending, wret, written, logged, mret,
                   request, response, response_bin>>

\* poll returns a publish packet whose payload is no envelope
PollGarbage ==
    LET \* payloads that are no envelope
        BadPayloads ==
            {Garbage,
             without(Envelope(NoSource), "rssi"),
             with(Envelope(NoSource), "data", JNull)}
    IN  /\ pc = "stream" /\ ~ended /\ polled < MaxPolls
        /\ \E p \in BadPayloads : HandlePublish(p)
        /\ src' = NoSource
        /\ data' = <<>>
        /\ result' = NoResult
        /\ UNCHANGED <<pc, calls, locals, db, pending, wret, written, logged, mret,
                       request, response, response_bin>>

\* poll returns a notification that is no incoming publish
PollOther ==
    /\ pc = "stream" /\ ~ended /\ polled < MaxPolls
    /\ polled' = polled + 1
    /\ arrived' = Append(arrived, OtherPacket)
    /\ UNCHANGED <<src, data, result, pc, yielded, dropped, ended,
                   stdout, calls, locals, payload, parsed, db, pending, wret, written, logged, mret,
                   request, response, response_bin>>

\* poll returns an error: the while-let loop ends, and the stream with it
PollError ==
    /\ pc = "stream" /\ ~ended
    /\ ended' = on_poll_error.stop
    /\ arrived' = Append(arrived, ConnectionError)
    /\ UNCHANGED <<src, data, result, pc, polled, yielded, dropped,
                   stdout, calls, locals, payload, parsed, db, pending, wret, written, logged, mret,
                   request, response, response_bin>>

StreamNext == PollEnvelope \/ PollGarbage \/ PollOther \/ PollError

StreamSpec == StreamInit /\ [][StreamNext]_vars

(***************************************************************************)
(* Persistence.  A DecodedMessage becomes an Event (mqtt_stream.rs), and   *)
(* write_sensor_data (write/db.rs) inserts a list of events one by one; an *)
(* insert succeeds or fails as the database decides.                       *)
(***************************************************************************)
\* impl Into<Event> for DecodedMessage; DateTime::from_timestamp of a u32 and
\* 0 nanoseconds is always there, so the timestamp is ts
into_event(m) ==
    [sensor_mac |-> m.sensor_data.mac,
     gateway_mac |-> m.message.gw_mac,
     temperature |-> m.sensor_data.temperature,
     humidity |-> unwrap_or(m.sensor_data.humidity, F32Zero),
     pressure |-> unwrap_or(m.sensor_data.pressure, F32Zero),
     battery |-> unwrap_or(m.sensor_data.battery, 0),
     tx_power |-> unwrap_or(m.sensor_data.tx_power, 0),
     movement_counter |-> m.sensor_data.movement_counter,
     measurement_sequence_number |-> m.sensor_data.measurement_sequence_number,
     acceleration |-> m.sensor_data.acceleration,
     acceleration_x |-> m.sensor_data.acceleration_x,
     acceleration_y |-> m.sensor_data.acceleration_y,
     acceleration_z |-> m.sensor_data.acceleration_z,
     rssi |-> unwrap_or(m.sensor_data.rssi, 0),
     timestamp |-> m.message.ts]

\* a call of write_sensor_data: its events, how many of them it has
\* inserted, and what it returned
WriteCall(events, ret) == [events |-> events, n |-> 0, ret |-> ret]

\* the call of write_sensor_data in progress returns r
WriteReturns(r) ==
    /\ wret' = r
    /\ written' = [written EXCEPT ![Len(written)].ret = r]
    /\ pending' = <<>>
    /\ pc' = IF pc = "insert" THEN "wrote" ELSE "inserted"

\* self.store.insert_event(&event).await succeeds: the row is there
InsertOk ==
    /\ pc \in {"insert", "inserting"} /\ pending # <<>>
    /\ db' = Append(db, Head(pending))
    /\ pending' = Tail(pending)
    /\ written' = [written EXCEPT ![Len(written)].n = @ + 1]
    /\ UNCHANGED <<src, data, result, pc, polled, yielded, dropped, ended,
                   stdout, calls, locals, payload, parsed, arrived,
                   wret, logged, mret, request, response, response_bin>>

\* insert_event fails: `?` returns the error, the events left are not inserted
InsertFail ==
    /\ pc \in {"insert", "inserting"} /\ pending # <<>>
    /\ WriteReturns(Err("insert"))
    /\ UNCHANGED <<src, data, result, polled, yielded, dropped, ended,
                   stdout, calls, locals, payload, parsed, arrived,
                   db, logged, mret, request, response, response_bin>>

\* the for loop is through: Ok(())
WriteDone ==
    /\ pc \in {"insert", "inserting"} /\ pending = <<>>
    /\ WriteReturns(Ok(<<>>))
    /\ UNCHANGED <<src, data, result, polled, yielded, dropped, ended,
                   stdout, calls, locals, payload, parsed, arrived,
                   db, logged, mret, request, response, response_bin>>

(***************************************************************************)
(* A caller of the writer: one call of write_sensor_data on a list of      *)
(* events, as the tests of database_tests.rs make it.                      *)
(***************************************************************************)
MaxEvents == 3

WriterInit ==
    LET \* events of the frames of the decoder's tests
        SampleEvents ==
            {into_event(DecodedMessage(try_from(Envelope(s)).val,
                                       decode_data(render(s)).val)) :
                s \in {Source(f, <<>>, "upper", FrameChars, NoJunk, <<>>) :
                        f \in {BaseFrame, PlainFrame,
                               [BaseFrame EXCEPT !.hum = 21000, !.pres = 51325]}}}
        EventLists == UNION {[1..n -> SampleEvents] : n \in 0..MaxEvents}
    IN  /\ pending \in EventLists
        /\ written = <<WriteCall(pending, NoResult)>>
        /\ db = <<>>
        /\ wret = NoResult
        /\ pc = "inserting"
        /\ stdout = <<>>
        /\ DecoderIdle /\ ConcIdle /\ ParserIdle /\ StreamIdle
        /\ MainIdle /\ ApiIdle

(***************************************************************************)
(* The ingestion loop of main (mqtt-reader/src/main.rs): it takes the next *)
(* message of the stream, which polls the event loop until it has one to   *)
(* yield or ends, converts it and writes it, and goes on.                  *)
(***************************************************************************)

\* the loop of main as it would be if a failed write ended it
after_write_stop_on_error(r) ==
    IF r.kind = "err" THEN [log |-> 1, next |-> "returned"]
    ELSE [log |-> 0, next |-> "next"]

\* if let Err(err) = ...write_sensor_data(..).await { error!(..) }: the error
\* is logged and the loop goes on
after_write(r) ==
    IF r.kind = "err" THEN [log |-> 1, next |-> "next"]
    ELSE [log |-> 0, next |-> "next"]

MainInit ==
    /\ pc = "next"
    /\ stdout = <<>>
    /\ DecoderIdle /\ ConcIdle /\ ParserIdle /\ StreamIdle
    /\ WriterIdle /\ MainIdle /\ ApiIdle

\* stream.next(): the stream polls, and a publish packet arrives; the message
\* it yields, if any, is the one main takes
NextPublish(p) ==
    /\ pc = "next" /\ ~ended /\ polled < MaxPolls
    /\ HandlePublish(p)
    /\ pc' = IF on_publish(p).yield # <<>> THEN "take" ELSE "next"
    /\ UNCHANGED <<calls, locals, db, pending, wret, written, logged, mret,
                   request, response, response_bin>>

NextEnvelope ==
    LET \* what the gateway publishes: frames with every field measured, with every
        \* field at its sentinel, and wrapped or cut ones, at two signal strengths
        AbsentFrame ==
            [BaseFrame EXCEPT !.temp = -32768, !.hum = 65535, !.pres = 65535,
                              !.ax = -32768, !.ay = -32768, !.az = -32768,
                              !.power = 65535]
        MainSources ==
            {Source(f, <<>>, "upper", FrameChars, NoJunk, <<>>) :
                f \in {PlainFrame, AbsentFrame,
                       [BaseFrame EXCEPT !.hum = 21000, !.pres = 51325]}}
            \cup {Source(BaseFrame, <<>>, "upper", 40, NoJunk, <<>>)}
        RssiValues == {-70, -32}
    IN  \E s \in MainSources, r \in RssiValues :
            /\ src' = s
            /\ data' = render(s)
            /\ result' = decode_data(render(s))
            /\ NextPublish(EnvelopeWith(s, r))

NextGarbage ==
    /\ NextPublish(Garbage)
    /\ src' = NoSource
    /\ data' = <<>>
    /\ result' = NoResult

\* the stream polls, and a notification that is no incoming publish arrives
NextOther ==
    /\ pc = "next" /\ ~ended /\ polled < MaxPolls
    /\ polled' = polled + 1
    /\ arrived' = Append(arrived, OtherPacket)
    /\ UNCHANGED <<src, data, result, pc, yielded, dropped, ended,
                   stdout, calls, locals, payload, parsed,
                   db, pending, wret, written, logged, mret,
                   request, response, response_bin>>

\* the stream polls, and poll returns an error
NextError ==
    /\ pc = "next" /\ ~ended
    /\ ended' = on_poll_error.stop
    /\ arrived' = Append(arrived, ConnectionError)
    /\ UNCHANGED <<src, data, result, pc, polled, yielded, dropped,
                   stdout, calls, locals, payload, parsed,
                   db, pending, wret, written, logged, mret,
                   request, response, response_bin>>

\* postgres_writer.write_sensor_data(vec![decoded_message.into()])
CallWrite ==
    /\ pc = "take"
    /\ pending' = <<into_event(yielded[Len(yielded)])>>
    /\ written' = Append(written, WriteCall(pending', NoResult))
    /\ pc' = "insert"
    /\ UNCHANGED <<src, data, result, polled, yielded, dropped, ended,
                   stdout, calls, locals, payload, parsed, arrived,
                   db, wret, logged, mret, request, response, response_bin>>

\* the write has returned
AfterWrite ==
    /\ pc = "wrote"
    /\ logged' = logged + after_write(wret).log
    /\ pc' = after_write(wret).next
    /\ mret' = IF after_write(wret).next = "returned" THEN Ok(<<>>) ELSE mret
    /\ UNCHANGED <<src, data, result, polled, yielded, dropped, ended,
                   stdout, calls, locals, payload, parsed, arrived,
                   db, pending, wret, written, request, response, response_bin>>

\* the stream has ended: stream.next() is None, the loop is left, Ok(())
MainReturn ==
    /\ pc = "next" /\ ended
    /\ mret' = Ok(<<>>)
    /\ pc' = "returned"
    /\ UNCHANGED <<src, data, result, polled, yielded, dropped, ended,
                   stdout, calls, locals, payload, parsed, arrived,
                   db, pending, wret, written, logged, request, response,
                   response_bin>>

MainNext ==
    \/ NextEnvelope \/ NextGarbage \/ NextOther \/ NextError
    \/ CallWrite \/ InsertOk \/ InsertFail \/ WriteDone \/ AfterWrite
    \/ MainReturn

MainSpec == MainInit /\ [][MainNext]_vars

\* main runs: when stream.next() is None it does leave the loop and return
FairMainSpec == MainSpec /\ WF_vars(MainReturn)

\* the writer under both its callers, main and a direct call
IngestSpec == (MainInit \/ WriterInit) /\ [][MainNext]_vars

(***************************************************************************)
(* The API's utilities (api/src/utils.rs).  A &str is its characters;      *)
(* len() and slicing count bytes.                                          *)
(***************************************************************************)

\* &s[..n]: the characters of the first n bytes; a panic when n is inside a
\* character
slice_to(s, n) ==
    LET \* the byte offset n falls between two characters of s (or at an end)
        is_char_boundary == \E k \in 0..Len(s) : byte_len(SubSeq(s, 1, k)) = n
    IN  IF is_char_boundary
        THEN Ok(SubSeq(s, 1, CHOOSE k \in 0..Len(s) : byte_len(SubSeq(s, 1, k)) = n))
        ELSE Panic

starts_with(s, pre) == Len(s) >= Len(pre) /\ SubSeq(s, 1, Len(pre)) = pre

\* s.split(sep).collect(): the parts between the separators, empty ones too
RECURSIVE split(_, _)
split(s, sep) ==
    IF \A i \in DOMAIN s : s[i] # sep THEN <<s>>
    ELSE LET i == CHOOSE j \in DOMAIN s :
                    s[j] = sep /\ \A k \in 1..(j - 1) : s[k] # sep
         IN  <<SubSeq(s, 1, i - 1)>> \o split(SubSeq(s, i + 1, Len(s)), sep)

is_ascii_hexdigit(c) == is_hex(c)

\* is_valid_mac_format as it would be if it took '-' for a separator as well
is_valid_mac_format_any_separator(mac) ==
    IF byte_len(mac) # 17 THEN FALSE
    ELSE LET parts == split([i \in DOMAIN mac |->
                                IF mac[i] = "-" THEN ":" ELSE mac[i]], ":")
         IN  IF Len(parts) # 6 THEN FALSE
             ELSE \A i \in DOMAIN parts :
                    /\ byte_len(parts[i]) = 2
                    /\ \A k \in DOMAIN parts[i] : is_ascii_hexdigit(parts[i][k])

is_valid_mac_format(mac) ==
    IF byte_len(mac) # 17 THEN FALSE
    ELSE LET parts == split(mac, ":")
         IN  IF Len(parts) # 6 THEN FALSE
             ELSE \A i \in DOMAIN parts :
                    /\ byte_len(parts[i]) = 2
                    /\ \A k \in DOMAIN parts[i] : is_ascii_hexdigit(parts[i][k])

TestPrefixA == <<"A", "A", ":", "B", "B", ":", "C", "C", ":", "D", "D", ":", "E", "E", ":">>
TestPrefixF == <<"F", "F", ":", "F", "F", ":", "F", "F", ":", "F", "F", ":", "F", "F", ":">>

is_test_mac(mac) == starts_with(mac, TestPrefixA) \/ starts_with(mac, TestPrefixF)

\* sanitize_mac_for_logging; format!("{}XX:XX", &mac[..12])
sanitize_mac_for_logging(mac) ==
    IF is_test_mac(mac) THEN Ok(mac)
    ELSE IF byte_len(mac) >= 17
    THEN IF slice_to(mac, 12).kind = "panic" THEN Panic
         ELSE Ok(slice_to(mac, 12).val \o <<"X", "X", ":", "X", "X">>)
    ELSE Ok(<<"X", "X", ":", "X", "X", ":", "X", "X", ":", "X", "X", ":", "X", "X", ":", "X", "X">>)

validate_limit(limit) == limit > 0 /\ limit <= 10000

(***************************************************************************)
(* Sensor MACs as a request or a test hands them in.                       *)
(***************************************************************************)
FirstOctets == <<"F", "7", ":", "9", "7", ":", "E", "3", ":", "6", "E", ":">>
LastOctets == {<<"D", "8">>, <<"1", "1">>, <<"a", "b">>, <<"0", "G">>, <<"C">>}

\* the MAC the decoder makes of the bytes of BaseFrame
StoredMac == get_mac(unpack(frame_bytes(BaseFrame)).val)

dashed(m) == [i \in DOMAIN m |-> IF m[i] = ":" THEN "-" ELSE m[i]]

Macs ==
    {FirstOctets \o a \o <<sep>> \o b :
        a \in LastOctets, b \in LastOctets, sep \in {":"}}
    \cup {dashed(FirstOctets \o <<"D", "8", ":">> \o b) : b \in LastOctets}
    \cup {<<"A", "A", ":", "B", "B", ":", "C", "C", ":", "D", "D", ":", "E", "E", ":", "F", "F">>,
          <<"F", "F", ":", "F", "F", ":", "F", "F", ":", "F", "F", ":", "F", "F", ":", "0", "1">>,
          <<"a", "a", ":", "b", "b", ":", "c", "c", ":", "d", "d", ":", "e", "e", ":", "f", "f">>,
          <<"F", "7", ":", "9", "7", ":", "E", "3">>,
          <<"F", "7", ":", "9", "7", ":", "E", "3", ":", "6", "E", ":", "D", "8", ":", "1", "1", ":", "2", "2">>,
          <<"F", "7", ":", ":", "9", "7", ":", "E", "3", ":", "6", "E", ":", "D", "8", ":", "1">>,
          <<"F", "7", ":", "9", "7", ":", "E", "3", ":", "6", "E", ":", "D", "8", "1", "1", "1">>,
          <<"F", ":", "7", "9", "7", ":", "E", "3", ":", "6", "E", ":", "D", "8", ":", "1", "1">>,
          <<"F", "7", "9", "7", "E", "3", "6", "E", "D", "8", "1", "1">>,
          <<"F", "7", ":", "9", "7", ":", "E", "3", ":", "6", "E", "U+00E9", ":", "D", "8", ":", "1", "1">>,
          <<"U+00E9", "F", ":", "9", "7", ":", "E", "3", ":", "6", "E", ":", "D", "8", ":", "1", "1">>,
          <<"U+00E9", "7", ":", "9", "7", ":", "E", "3", ":", "6", "E", ":", "D", "8", ":", "1">>,
          <<" ", "F", "7", ":", "9", "7", ":", "E", "3", ":", "6", "E", ":", "D", "8", ":", "1", "1">>,
          <<"A", "A", ":", "B", "B", ":", "C", "C", ":", "D", "D", ":", "E", "E", ":", "U+00E9", "7", ":", "9", "7", ":", "E", "3">>,
          <<>>, StoredMac}

(***************************************************************************)
(* A caller of the utilities: one call of is_valid_mac_format or of        *)
(* sanitize_mac_for_logging, as the tests of utils.rs make them.           *)
(***************************************************************************)
UtilsInit ==
    /\ request \in [route : {"is_valid_mac_format", "sanitize_mac_for_logging"},
                    mac : Macs]
    /\ response = NoResponse
    /\ response_bin = NoResponse
    /\ pc = "utils"
    /\ stdout = <<>>
    /\ DecoderIdle /\ ConcIdle /\ ParserIdle /\ StreamIdle
    /\ WriterIdle /\ MainIdle

CallIsValidMacFormat ==
    /\ pc = "utils" /\ request.route = "is_valid_mac_format"
    /\ response = NoResponse
    /\ response' = Ok(is_valid_mac_format(request.mac))
    /\ UNCHANGED <<src, data, result, pc, polled, yielded, dropped, ended,
                   stdout, calls, locals, payload, parsed, arrived,
                   db, pending, wret, written, logged, mret,
                   request, response_bin>>

CallSanitize ==
    /\ pc = "utils" /\ request.route = "sanitize_mac_for_logging"
    /\ response = NoResponse
    /\ response' = sanitize_mac_for_logging(request.mac)
    /\ UNCHANGED <<src, data, result, pc, polled, yielded, dropped, ended,
                   stdout, calls, locals, payload, parsed, arrived,
                   db, pending, wret, written, logged, mret,
                   request, response_bin>>

UtilsNext == CallIsValidMacFormat \/ CallSanitize

UtilsSpec == UtilsInit /\ [][UtilsNext]_vars

(***************************************************************************)
(* The storage estimate (postgres-store/src/lib.rs).  An i64 is kept as a  *)
(* sign and its magnitude in base 10000, least significant digit first; an *)
(* i32 product is taken exactly where it fits and wrapped where it does    *)
(* not.                                                                    *)
(***************************************************************************)
RECURSIVE Digits(_)
Digits(n) == IF n = 0 THEN <<>> ELSE <<n % 10000>> \o Digits(n \div 10000)

RECURSIVE MulDigits(_, _, _)
MulDigits(ds, c, carry) ==
    IF ds = <<>> THEN Digits(carry)
    ELSE <<(Head(ds) * c + carry) % 10000>>
            \o MulDigits(Tail(ds), c, (Head(ds) * c + carry) \div 10000)

\* the magnitude ds is at most that of es
RECURSIVE DigitsLeq(_, _)
DigitsLeq(ds, es) ==
    IF Len(ds) # Len(es) THEN Len(ds) < Len(es)
    ELSE IF ds = <<>> THEN TRUE
    ELSE IF ds[Len(ds)] # es[Len(es)] THEN ds[Len(ds)] < es[Len(es)]
    ELSE DigitsLeq(SubSeq(ds, 1, Len(ds) - 1), SubSeq(es, 1, Len(es) - 1))

\* x * c in i64, c an i32 of small magnitude; overflow marks a product that
\* left the type
mul_i64(x, c) ==
    LET \* 2^63 - 1
        I64Max == <<5807, 5477, 3685, 3720, 922>>
        mag == IF c = 0 THEN <<>> ELSE MulDigits(x.mag, Abs(c), 0)
    IN  [neg |-> mag # <<>> /\ (x.neg # (c < 0)), mag |-> mag,
         overflow |-> ~DigitsLeq(mag, I64Max)]

\* the product a * b fits an i32
fits_i32(a, b) ==
    \/ a = 0 \/ b = 0
    \/ Abs(a) <= 2147483647 \div Abs(b)
    \/ /\ (a < 0) # (b < 0)
       /\ 2147483647 % Abs(b) = Abs(b) - 1
       /\ Abs(a) = (2147483647 \div Abs(b)) + 1

\* x * b in i32, x a product so far
mul_i32(x, b) ==
    LET \* a * b modulo 2^32 as an i32, the product taken in two 16-bit limbs;
        \* b is of magnitude below 2^15
        wrapping_mul_i32(a) ==
            LET lo == (a % 65536) * Abs(b)
                hi == (((a \div 65536) % 65536) * Abs(b) + (lo \div 65536)) % 65536
                plo == lo % 65536
                \* the two's complement of the product when b is negative
                nlo == IF b < 0 THEN (65536 - plo) % 65536 ELSE plo
                nhi == IF b < 0
                       THEN (65535 - hi + (IF plo = 0 THEN 1 ELSE 0)) % 65536
                       ELSE hi
            IN  IF nhi >= 32768 THEN (nhi - 65536) * 65536 + nlo ELSE nhi * 65536 + nlo
    IN  [val |-> IF fits_i32(x.val, b) THEN x.val * b ELSE wrapping_mul_i32(x.val),
         overflow |-> x.overflow \/ ~fits_i32(x.val, b)]

I32(n) == [val |-> n, overflow |-> FALSE]

\* estimate_storage_requirements; overflow_checks is the build's setting (on
\* in debug, off in release).  The sizes are kept as the integers the code
\* converts to f64 and divides by powers of 1024.
estimate_storage_requirements(sensor_count, reading_interval_seconds, retention_years, overflow_checks) ==
    LET \* the quotient of the i64 division a / b, which truncates toward zero
        div_trunc(a, b) ==
            IF (a < 0) = (b < 0) THEN Abs(a) \div Abs(b) ELSE -(Abs(a) \div Abs(b))
        \* an i64 of magnitude below 2^31
        I64(n) == [neg |-> n < 0, mag |-> Digits(Abs(n))]
    IN  IF reading_interval_seconds = 0 THEN Panic
        ELSE
        LET readings_per_sensor_per_year ==
                I64(div_trunc(31536000, reading_interval_seconds))
            per_sensors == mul_i64(readings_per_sensor_per_year, sensor_count)
            total_readings == mul_i64(per_sensors, retention_years)
            uncompressed == mul_i64(total_readings, 200)
            daily == mul_i32(mul_i32(mul_i32(I32(sensor_count), 365),
                                     retention_years), 150)
            hourly == mul_i32(mul_i32(mul_i32(mul_i32(I32(sensor_count), 365), 24),
                                      retention_years), 150)
            overflow == \/ per_sensors.overflow \/ total_readings.overflow
                        \/ uncompressed.overflow
                        \/ daily.overflow \/ hourly.overflow
        IN  IF overflow /\ overflow_checks THEN Panic
            ELSE Ok([total_readings |-> [neg |-> total_readings.neg,
                                         mag |-> total_readings.mag],
                     uncompressed_bytes |-> [neg |-> uncompressed.neg,
                                             mag |-> uncompressed.mag],
                     daily_aggregates_bytes |-> daily.val,
                     hourly_aggregates_bytes |-> hourly.val,
                     overflowed |-> overflow])

(***************************************************************************)
(* The API's handlers: those of the library router (api/src/handlers.rs,   *)
(* create_router) and those of the binary (api/src/main.rs).  A request    *)
(* carries its path and query parameters and what its environment will do: *)
(* the clock, the store, whether the error level of the log is enabled     *)
(* (the arguments of error! are evaluated only then) and whether the build *)
(* checks integer overflow.                                                *)
(***************************************************************************)
\* a datetime text 2024-mo-dThh:00:00Z, or only its date when not complete
DateText(mo, d, h, complete) == [mo |-> mo, d |-> d, h |-> h, complete |-> complete]

\* datetime_str.parse::<DateTime<Utc>>(): the seconds since the epoch, or an
\* error for a text without time or with a field out of range
parse_datetime(t) ==
    LET \* days of 2024 before the month mo
        days_before(mo) == <<0, 31, 60, 91, 121, 152, 182, 213, 244, 274, 305, 335>>[mo]
        days_in(mo) == <<31, 29, 31, 30, 31, 30, 31, 31, 30, 31, 30, 31>>[mo]
    IN  IF ~t.complete \/ t.mo \notin 1..12 THEN Err("parse")
        ELSE IF t.d \notin 1..days_in(t.mo) \/ t.h \notin 0..23 THEN Err("parse")
        ELSE Ok(1704067200 + (days_before(t.mo) + t.d - 1) * 86400 + t.h * 3600)

Status(status, queried) == [status |-> status, queried |-> queried]

\* the handler panicked: the connection is closed without a response
Panicked == Status("PANIC", FALSE)

\* error!("Invalid MAC address format: {}", sanitize_mac_for_logging(&mac));
\* return Err(StatusCode::BAD_REQUEST)
reject_mac(req) ==
    IF req.log /\ sanitize_mac_for_logging(req.mac).kind = "panic" THEN Panicked
    ELSE Status("BAD_REQUEST", FALSE)

\* the start and end of a history request: the parsed parameter or the
\* default taken from the clock, which is read once for each
start_of(req) ==
    IF is_some(req.start) THEN parse_datetime(req.start[1]) ELSE Ok(req.now - 3600)
end_of(req) ==
    IF is_some(req.end) THEN parse_datetime(req.end[1]) ELSE Ok(req.now + req.elapsed)

\* get_historical_data
query_history(req) ==
    IF req.store = "fails" THEN Status("INTERNAL_SERVER_ERROR", TRUE)
    ELSE Status("OK", TRUE)

\* get_latest_reading
query_latest(req) ==
    CASE req.store = "fails" -> Status("INTERNAL_SERVER_ERROR", TRUE)
      [] req.store = "empty" -> Status("NOT_FOUND", TRUE)
      [] OTHER -> Status("OK", TRUE)

\* handlers::get_sensor_history
get_sensor_history(req) ==
    IF ~is_valid_mac_format(req.mac) THEN reject_mac(req)
    ELSE IF is_some(req.limit) /\ ~validate_limit(req.limit[1])
    THEN Status("BAD_REQUEST", FALSE)
    ELSE IF start_of(req).kind = "err" THEN Status("BAD_REQUEST", FALSE)
    ELSE IF end_of(req).kind = "err" THEN Status("BAD_REQUEST", FALSE)
    ELSE IF start_of(req).val >= end_of(req).val THEN Status("BAD_REQUEST", FALSE)
    ELSE query_history(req)

\* handlers::get_sensor_latest
get_sensor_latest(req) ==
    IF ~is_valid_mac_format(req.mac) THEN reject_mac(req)
    ELSE query_latest(req)

\* the parameters of the estimate, with their defaults
sensor_count_of(req) == unwrap_or(req.sensor_count, 10)
interval_seconds_of(req) == unwrap_or(req.interval_seconds, 10)
retention_years_of(req) == unwrap_or(req.retention_years, 5)

\* the store's estimate as the handler answers it
answer_estimate(req) ==
    LET estimate == estimate_storage_requirements(
                        sensor_count_of(req), interval_seconds_of(req),
                        retention_years_of(req), req.overflow_checks)
    IN  IF estimate.kind = "panic" THEN Panicked
        ELSE [status |-> "OK", queried |-> TRUE, body |-> estimate.val]

\* handlers::get_storage_estimate
get_storage_estimate(req) ==
    IF sensor_count_of(req) <= 0 THEN Status("BAD_REQUEST", FALSE)
    ELSE IF interval_seconds_of(req) <= 0 THEN Status("BAD_REQUEST", FALSE)
    ELSE IF retention_years_of(req) <= 0 THEN Status("BAD_REQUEST", FALSE)
    ELSE IF sensor_count_of(req) > 10000 THEN Status("BAD_REQUEST", FALSE)
    ELSE IF interval_seconds_of(req) \notin 1..86400 THEN Status("BAD_REQUEST", FALSE)
    ELSE IF retention_years_of(req) > 100 THEN Status("BAD_REQUEST", FALSE)
    ELSE answer_estimate(req)

\* the handlers of main.rs
main_get_sensor_history(req) ==
    IF start_of(req).kind = "err" THEN Status("BAD_REQUEST", FALSE)
    ELSE IF end_of(req).kind = "err" THEN Status("BAD_REQUEST", FALSE)
    ELSE query_history(req)

main_get_sensor_latest(req) == query_latest(req)

main_get_storage_estimate(req) == answer_estimate(req)

\* the route of the library router
create_router(req) ==
    CASE req.route = "history" -> get_sensor_history(req)
      [] req.route = "latest" -> get_sensor_latest(req)
      [] req.route = "estimate" -> get_storage_estimate(req)

\* the route of the router main builds
main_router(req) ==
    CASE req.route = "history" -> main_get_sensor_history(req)
      [] req.route = "latest" -> main_get_sensor_latest(req)
      [] req.route = "estimate" -> main_get_storage_estimate(req)

(***************************************************************************)
(* A client of the API: one request, answered by each of the two routers.  *)
(***************************************************************************)
Request(route, mac, limit, start, end, sensor_count, interval_seconds, retention_years, store, log, overflow_checks, elapsed) ==
    [route |-> route, mac |-> mac, limit |-> limit, start |-> start,
     end |-> end, sensor_count |-> sensor_count,
     interval_seconds |-> interval_seconds,
     retention_years |-> retention_years,
     \* the clock at the first Utc::now(): 2024-01-01T02:30:00Z
     now |-> 1704067200 + 9000,
     elapsed |-> elapsed, store |-> store, log |-> log,
     overflow_checks |-> overflow_checks]

RealMac == <<"F", "7", ":", "9", "7", ":", "E", "3", ":", "6", "E", ":", "D", "8", ":", "1", "1">>
WideMac == <<"F", "7", ":", "9", "7", ":", "E", "3", ":", "6", "E", "U+00E9", ":", "D", "8", ":", "1", "1">>

ApiInit ==
    LET HistoryMacs == {RealMac, dashed(RealMac), StoredMac, WideMac}
        Limits == {None, Some(-1), Some(0), Some(1), Some(10000), Some(10001)}
        DateParams ==
            {None, Some(DateText(1, 1, 0, TRUE)), Some(DateText(1, 1, 1, TRUE)),
             Some(DateText(1, 2, 0, TRUE)), Some(DateText(13, 1, 0, TRUE)),
             Some(DateText(1, 1, 0, FALSE))}
        HistoryRequests ==
            {Request("history", m, l, st, en, None, None, None, sto, lg, TRUE, el) :
                m \in HistoryMacs, l \in Limits, st \in DateParams, en \in DateParams,
                sto \in {"ok", "fails"}, lg \in BOOLEAN, el \in {0, 1}}
        LatestRequests ==
            {Request("latest", m, None, None, None, None, None, None, sto, lg, TRUE, 0) :
                m \in Macs, sto \in {"ok", "empty", "fails"}, lg \in BOOLEAN}
        SensorCounts == {None, Some(-1), Some(0), Some(1), Some(1000), Some(10000), Some(10001)}
        Intervals == {None, Some(-1), Some(0), Some(1), Some(86400), Some(86401)}
        Retentions == {None, Some(-1), Some(0), Some(1), Some(100), Some(101)}
        EstimateRequests ==
            {Request("estimate", <<>>, None, None, None, sc, iv, ry, "ok", TRUE, oc, 0) :
                sc \in SensorCounts, iv \in Intervals, ry \in Retentions,
                oc \in BOOLEAN}
    IN  /\ request \in HistoryRequests \cup LatestRequests \cup EstimateRequests
        /\ response = NoResponse
        /\ response_bin = NoResponse
        /\ pc = "api"
        /\ stdout = <<>>
        /\ DecoderIdle /\ ConcIdle /\ ParserIdle /\ StreamIdle
        /\ WriterIdle /\ MainIdle

\* the router of create_router answers the request
ServeLibrary ==
    /\ pc = "api" /\ response = NoResponse
    /\ response' = create_router(request)
    /\ UNCHANGED <<src, data, result, pc, polled, yielded, dropped, ended,
                   stdout, calls, locals, payload, parsed, arrived,
                   db, pending, wret, written, logged, mret,
                   request, response_bin>>

\* the router of the binary answers the request
ServeBinary ==
    /\ pc = "api" /\ response_bin = NoResponse
    /\ response_bin' = main_router(request)
    /\ UNCHANGED <<src, data, result, pc, polled, yielded, dropped, ended,
                   stdout, calls, locals, payload, parsed, arrived,
                   db, pending, wret, written, logged, mret,
                   request, response>>

ApiNext == ServeLibrary \/ ServeBinary

ApiSpec == ApiInit /\ [][ApiNext]_vars

(***************************************************************************)
(* Properties                                                              *)
(***************************************************************************)
\* the call has returned a reading
Decoded == pc = "done" /\ result.kind = "ok"

\* the input is the frame's 48 characters, with nothing before them and none
\* replaced (text may follow)
Intact == src.prefix = <<>> /\ src.cut = FrameChars /\ src.junk = NoJunk

\* the f32 v is the quotient n / d
IsQuotient(v, n, d) == v.root = 1 /\ v.a * d = n * v.b

upper(c) == IF is_hex(c) THEN UpperHex[hex_val(c) + 1] ELSE c

\* the manufacturer id 0x0499 (little-endian 99 04) followed by format 05
Marker == <<"9", "9", "0", "4", "0", "5">>

\* the position of the first marker in a text, 0 when there is none
marker_at(s) ==
    LET hits == {i \in 1..Len(s) :
                    /\ i + 5 <= Len(s)
                    /\ [k \in 1..6 |-> upper(s[i + k - 1])] = Marker}
    IN  IF hits = {} THEN 0 ELSE CHOOSE i \in hits : \A j \in hits : i <= j

\* the fields of a reading that are the frame's raw values verbatim
VerbatimOf(r, f) ==
    /\ r.movement_counter = f.move
    /\ r.measurement_sequence_number = f.seq
    /\ r.mac = hex_text(f.mac, "lower")

\* C1: when the envelope's data holds the marker followed by the whole frame,
\* the reading of the yielded message is decoded from the frame that begins
\* at the marker's format byte, whatever advertisement bytes come before it.
C1_ReadingFromFrameAfterMarker ==
    (pc = "stream" /\ src.cut = FrameChars
        /\ marker_at(data) > 0 /\ marker_at(data) + 4 = 2 * Len(src.prefix) + 1)
        => /\ yielded # <<>>
           /\ yielded[Len(yielded)].message.data = data
           /\ VerbatimOf(yielded[Len(yielded)].sensor_data, src.frame)

\* C2: an input that does not contain the marker is never decoded to a
\* reading: decode fails.
C2_NoMarkerIsError ==
    (pc = "done" /\ marker_at(data) = 0) => result.kind = "err"

\* C3: an input of fewer than 48 characters is answered with an error, never
\* with a reading; when its characters are an even number of hex digits the
\* error is the one of the frame's size.
C3_ShortInputIsError ==
    (pc = "done" /\ Len(data) < FrameChars)
        => /\ result.kind = "err"
           /\ (Len(data) % 2 = 0 /\ \A i \in 1..Len(data) : is_hex(data[i]))
                => result.err = "UnpackSize"

C3_Witness ==
    /\ pc = "done" /\ Len(data) = 2 /\ src.prefix = <<>>
    /\ result = Err("UnpackSize")

\* C4: when the candidate frame, the first 48 characters of the input (fewer
\* when the input is shorter), holds a character that is no hex digit or has
\* odd length, decode returns the error of the hex decoding, never a reading.
C4_BadHexIsError ==
    (pc = "done" /\ (\/ Len(take(data, FrameChars)) % 2 = 1
                     \/ \E i \in 1..Len(take(data, FrameChars)) :
                            data[i] \notin Range(LowerHex) \cup Range(UpperHex)))
        => /\ result.kind = "err"
           /\ result.err \in {"OddLength", "InvalidHexCharacter"}

C4_Witness ==
    /\ pc = "done" /\ Len(data) >= FrameChars
    /\ \E i \in 1..FrameChars : data[i] = " "
    /\ result.kind = "err"

\* C5: decode always returns, a reading or an error, and never panics; it
\* returns an error only when fewer than 48 characters are there or one of
\* them is no hex digit, so 48 hex digits give a reading whatever the format
\* byte is and whichever fields hold their sentinels.
C5_Total ==
    pc = "done"
        => /\ result.kind \in {"ok", "err"}
           /\ result.kind = "err"
                => \/ Len(data) < FrameChars
                   \/ \E i \in 1..Len(take(data, FrameChars)) : ~is_hex(data[i])

C5_Witness ==
    /\ Decoded /\ Intact
    /\ src.frame.temp = -32768 /\ src.frame.ax = -32768
    /\ src.frame.hum = 65535 /\ src.frame.pres = 65535

\* C6: a frame whose raw temperature is the sentinel -32768 is never decoded
\* to the temperature 0.0 (the value of a frame whose raw temperature is 0).
C6_SentinelTemperatureNotZero ==
    (Decoded /\ Intact /\ src.frame.temp = -32768)
        => result.val.temperature # F32Zero

\* C7: when one raw axis is the sentinel -32768, none of the reading's x, y,
\* z and magnitude is populated or replaced by 0.
C7_SentinelAxisNotZero ==
    (Decoded /\ Intact
        /\ (src.frame.ax = -32768 \/ src.frame.ay = -32768 \/ src.frame.az = -32768))
        => /\ result.val.acceleration # F32Zero
           /\ result.val.acceleration_x # 0
           /\ result.val.acceleration_y # 0
           /\ result.val.acceleration_z # 0

\* C8: the humidity is absent when the raw value is 0xFFFF, and otherwise
\* present and equal to the raw value / 400; raw 0 gives a present 0.0.
C8_Humidity ==
    (Decoded /\ Intact)
        => IF src.frame.hum = 65535 THEN result.val.humidity = None
           ELSE /\ is_some(result.val.humidity)
                /\ IsQuotient(result.val.humidity[1], src.frame.hum, 400)

C8_Witness ==
    /\ Decoded /\ Intact /\ src.frame.hum = 0
    /\ result.val.humidity = Some(F32Zero)

\* C9: the pressure is absent when the raw value is 0xFFFF, and otherwise
\* present and equal to (raw + 50000) / 100, the sum not wrapped at 16 bits:
\* between 500.00 and 1155.34.
C9_Pressure ==
    (Decoded /\ Intact)
        => IF src.frame.pres = 65535 THEN result.val.pressure = None
           ELSE /\ is_some(result.val.pressure)
                /\ IsQuotient(result.val.pressure[1], src.frame.pres + 50000, 100)
                /\ 50000 * result.val.pressure[1].b <= 100 * result.val.pressure[1].a
                /\ 100 * result.val.pressure[1].a <= 115534 * result.val.pressure[1].b

C9_Witness ==
    /\ Decoded /\ Intact /\ src.frame.pres = 65534
    /\ IsQuotient(result.val.pressure[1], 115534, 100)

\* C10: the battery voltage is taken from the top 11 bits of the power info:
\* absent when they are 2047, otherwise they + 1600, in 1600..3646; the same
\* frame with any other bottom 5 bits decodes to the same battery voltage.
C10_Battery ==
    (Decoded /\ Intact)
        => /\ IF src.frame.power \div 32 = 2047 THEN result.val.battery = None
              ELSE /\ result.val.battery = Some((src.frame.power \div 32) + 1600)
                   /\ result.val.battery[1] \in 1600..3646
           /\ \A t \in 0..31 :
                LET other == [src EXCEPT !.frame.power = (src.frame.power \div 32) * 32 + t]
                IN  decode_data(render(other)).val.battery = result.val.battery

C10_Witness ==
    /\ Decoded /\ Intact
    /\ src.frame.power \div 32 = 2046 /\ src.frame.power % 32 = 31
    /\ result.val.battery = Some(3646)

\* C11: the transmit power is taken from the bottom 5 bits of the power info:
\* absent when they are 31, otherwise -40 + 2 * code, an even value in
\* -40..20 reached without overflow of the i8 sum; the same frame with other
\* top 11 bits decodes to the same transmit power.
C11_TxPower ==
    (pc = "done" /\ Intact)
        => /\ result.kind = "ok"
           /\ IF src.frame.power % 32 = 31 THEN result.val.tx_power = None
              ELSE /\ result.val.tx_power = Some(-40 + 2 * (src.frame.power % 32))
                   /\ result.val.tx_power[1] \in -40..20
                   /\ result.val.tx_power[1] % 2 = 0
           /\ \A b \in BatteryBits :
                LET other == [src EXCEPT !.frame.power = b * 32 + (src.frame.power % 32)]
                IN  decode_data(render(other)) = 
                        Ok([result.val EXCEPT
                              !.battery = IF b = 2047 THEN None ELSE Some(b + 1600)])

C11_Witness ==
    /\ Decoded /\ Intact
    /\ src.frame.power % 32 = 30 /\ src.frame.power \div 32 = 2047
    /\ result.val.tx_power = Some(20)

\* the frames that differ from f in one field only, which holds its sentinel
\* in them and a measurement in f, each with the reading's field it decides
SentinelVariants(f) ==
    {v \in {<<[f EXCEPT !.temp = -32768], "temperature">>,
            <<[f EXCEPT !.hum = 65535], "humidity">>,
            <<[f EXCEPT !.pres = 65535], "pressure">>,
            <<[f EXCEPT !.power = 2047 * 32 + (f.power % 32)], "battery">>,
            <<[f EXCEPT !.power = (f.power \div 32) * 32 + 31], "tx_power">>} :
        v[1] # f}

\* C12: a frame and the frame that differs from it only by holding the
\* sentinel in one of temperature, humidity, pressure, battery bits or
\* tx-power bits decode to readings that are equal in every other field.
C12_SentinelIndependence ==
    (Decoded /\ Intact)
        => \A v \in SentinelVariants(src.frame) :
            LET other == decode_data(render([src EXCEPT !.frame = v[1]]))
            IN  /\ other.kind = "ok"
                /\ \A k \in (DOMAIN result.val) \ {v[2]} : other.val[k] = result.val[k]
                /\ v[2] # "temperature" => other.val[v[2]] = None

C12_Witness ==
    /\ Decoded /\ Intact /\ src.frame = [BaseFrame EXCEPT !.hum = 21000, !.pres = 0]
    /\ Cardinality(SentinelVariants(src.frame)) = 5
    /\ is_some(result.val.humidity) /\ is_some(result.val.pressure)

\* C13: the movement counter and the sequence number of the reading are the
\* frame's raw byte and raw 16-bit value, 255 and 65535 included, and the
\* reading's data_format is 5 whatever the frame's format byte is.
C13_CountersVerbatim ==
    (Decoded /\ Intact)
        => /\ result.val.movement_counter = src.frame.move
           /\ result.val.measurement_sequence_number = src.frame.seq
           /\ result.val.data_format = 5

C13_Witness ==
    /\ Decoded /\ Intact
    /\ src.frame.move = 255 /\ src.frame.seq = 65535 /\ src.frame.fmt = 255
    /\ result.val.movement_counter = 255
    /\ result.val.measurement_sequence_number = 65535

\* C14: the reading's mac is 12 lower-case hex digits, two for each of the
\* frame's 6 trailing bytes in order, whatever the letter case of the input.
C14_MacLowerHex ==
    (Decoded /\ Intact)
        => /\ Len(result.val.mac) = 12
           /\ \A i \in 1..6 :
                /\ result.val.mac[2 * i - 1] = LowerHex[(src.frame.mac[i] \div 16) + 1]
                /\ result.val.mac[2 * i] = LowerHex[(src.frame.mac[i] % 16) + 1]

C14_Witness ==
    /\ Decoded /\ Intact /\ src.casing = "upper"
    /\ src.frame.mac = <<0, 10, 255, 0, 1, 16>>
    /\ result.val.mac = <<"0", "0", "0", "a", "f", "f", "0", "0", "0", "1", "1", "0">>

\* texts that may follow the 48 characters: hex digits, other characters,
\* of several lengths
Trailers ==
    {<<>>, <<"C">>, <<"C", "8">>, <<"z">>, <<" ", WideChar, "0">>,
     <<"f", "f", "f", "f">>}

\* C15: the result does not depend on what follows the frame: an input whose
\* first 48 characters are there gives the same result with any other text
\* after them, and the rssi of every reading is absent.
C15_TrailingIgnored ==
    (pc = "done" /\ src.cut = FrameChars)
        => /\ \A t \in Trailers :
                decode_data(render([src EXCEPT !.tail = t])) = result
           /\ result.kind = "ok" => result.val.rssi = None

C15_Witness ==
    /\ Decoded /\ Intact /\ src.tail = <<"z", "8">>
    /\ result.val.rssi = None
    /\ result = decode_data(render([src EXCEPT !.tail = <<>>]))

\* C16: the upper-case, the lower-case and a mixed-case hex text of the same
\* bytes give the same result, a reading or an error.
C16_CaseInsensitive ==
    pc = "done"
        => \A c \in Casings :
            decode_data(render([src EXCEPT !.casing = c])) = result

C16_Witness ==
    /\ Decoded /\ Intact /\ src.casing = "mixed" /\ src.frame = BaseFrame
    /\ \E i \in 1..FrameChars : data[i] = "f"
    /\ \E i \in 1..FrameChars : data[i] = "F"

\* C17: decode is stateless: whatever the interleaving of the invocations in
\* progress on one decoder, and whatever their inputs, each invocation that
\* has returned has returned what a single isolated invocation returns on its
\* input.
C17_Stateless ==
    pc = "concurrent" =>
        \A i \in DOMAIN calls :
            calls[i].at = "done" => calls[i].ret = decode_data(calls[i].input)

\* all invocations have returned, two of them readings that differ
C17_Witness ==
    /\ pc = "concurrent"
    /\ \A i \in DOMAIN calls : calls[i].at = "done"
    /\ \E i, j \in DOMAIN calls :
        /\ calls[i].ret.kind = "ok" /\ calls[j].ret.kind = "ok"
        /\ calls[i].ret # calls[j].ret

\* C18: decode has no effect outside its return value: once a call has
\* returned, nothing has been written to standard output.
C18_NoOutput == pc = "done" => stdout = <<>>

\* the JSON value j is not of the type of field k
Mistyped(k, j) ==
    \/ k \in {"gw_mac", "data", "coords"} /\ j.t # "string"
    \/ k \in {"rssi", "gwts", "ts"} /\ j.t # "number"
    \/ k = "rssi" /\ j.t = "number" /\ (j.n < -32768 \/ j.n > 32767)
    \/ k \in {"gwts", "ts"} /\ j.t = "number" /\ j.n < 0

MissingField(p) == \E k \in EnvelopeFields : k \notin DOMAIN p.obj

\* C19, as stated: try_from fails only on invalid JSON or on a missing field,
\* and otherwise returns the six JSON values unchanged.
C19_FailsOnlyOnInvalidJsonOrMissingField ==
    pc = "parsed" =>
        IF ~payload.json \/ MissingField(payload) THEN parsed.kind = "err"
        ELSE /\ parsed.kind = "ok"
             /\ \A k \in EnvelopeFields :
                    payload.obj[k] \in {JStr(parsed.val[k]), JNum(parsed.val[k])}

\* C19, amended: try_from either fails, on invalid JSON, on a missing field
\* or on a field whose JSON value is not of the field's type, or returns an
\* envelope whose six fields equal the JSON values unchanged, data and coords
\* whatever their text.
C19_StructuralParse ==
    pc = "parsed" =>
        IF \/ ~payload.json
           \/ MissingField(payload)
           \/ \E k \in EnvelopeFields \cap DOMAIN payload.obj :
                Mistyped(k, payload.obj[k])
        THEN parsed.kind = "err"
        ELSE /\ parsed.kind = "ok"
             /\ \A k \in {"gw_mac", "data", "coords"} :
                    payload.obj[k] = JStr(parsed.val[k])
             /\ \A k \in {"rssi", "gwts", "ts"} :
                    payload.obj[k] = JNum(parsed.val[k])

\* an envelope is returned whose data is no hex text and whose coords are
\* not empty
C19_Witness ==
    /\ pc = "parsed" /\ parsed.kind = "ok"
    /\ \E i \in DOMAIN parsed.val.data : ~is_hex(parsed.val.data[i])
    /\ parsed.val.coords # <<>>
    /\ parsed.val.data = payload.obj.data.s

\* the publish packet n carries an envelope whose data decodes
Valid(n) ==
    /\ n.kind = "publish"
    /\ try_from(n.payload).kind = "ok"
    /\ decode_data(try_from(n.payload).val.data).kind = "ok"

\* one message for each valid packet of the notifications ns, in their order
RECURSIVE OneEach(_)
OneEach(ns) ==
    IF ns = <<>> THEN <<>>
    ELSE LET n == Head(ns)
         IN  (IF Valid(n)
              THEN <<DecodedMessage(try_from(n.payload).val,
                                    decode_data(try_from(n.payload).val.data).val)>>
              ELSE <<>>) \o OneEach(Tail(ns))

Failing(ns) == {i \in DOMAIN ns : ns[i].kind = "publish" /\ ~Valid(ns[i])}

\* C20: the stream has yielded exactly one message for each valid publish
\* packet that arrived, in arrival order; each failing packet was dropped
\* once, and none ended the stream: it has ended only if the last
\* notification was an error of the connection; other notifications yield
\* nothing.
C20_OnePerValidPublish ==
    pc = "stream" =>
        /\ yielded = OneEach(arrived)
        /\ dropped = Cardinality(Failing(arrived))
        /\ ended <=> (arrived # <<>> /\ arrived[Len(arrived)].kind = "error")

\* a packet that fails was followed by a valid one, which was yielded
C20_Witness ==
    /\ pc = "stream" /\ ~ended
    /\ Len(arrived) = 2
    /\ arrived[1].kind = "publish" /\ ~Valid(arrived[1])
    /\ try_from(arrived[1].payload).kind = "ok"
    /\ Valid(arrived[2])
    /\ Len(yielded) = 1 /\ yielded[1].message = try_from(arrived[2].payload).val
    /\ dropped = 1

\* C21: the rssi of every event handed to the writer is the rssi of the
\* envelope of the message it was converted from.
C21_EventRssiFromEnvelope ==
    \A i \in DOMAIN written :
        written[i].events[1].rssi = yielded[i].message.rssi

\* C22: for every field the frame reports with its sentinel, the event built
\* from the decoded message does not carry 0.
C22_AbsentNotZero ==
    (pc = "insert" /\ pending # <<>> /\ Intact) =>
        LET e == pending[1]
            f == src.frame
        IN  /\ f.hum = 65535 => e.humidity # F32Zero
            /\ f.pres = 65535 => e.pressure # F32Zero
            /\ f.power \div 32 = 2047 => e.battery # 0
            /\ f.power % 32 = 31 => e.tx_power # 0
            /\ f.temp = -32768 => e.temperature # F32Zero
            /\ (f.ax = -32768 \/ f.ay = -32768 \/ f.az = -32768) =>
                    /\ e.acceleration # F32Zero
                    /\ e.acceleration_x # 0
                    /\ e.acceleration_y # 0
                    /\ e.acceleration_z # 0

\* C29: the stream has ended exactly when poll has returned an error; once
\* it has ended it stays ended and yields nothing more; main returns only
\* then, and returns Ok; and once the stream has ended main does return.
C29_ErrorEndsStream ==
    /\ [](ended <=> \E i \in DOMAIN arrived : arrived[i].kind = "error")
    /\ [][ended => (ended' /\ yielded' = yielded)]_vars
    /\ [](mret # NoResult => (ended /\ mret = Ok(<<>>) /\ pc = "returned"))
    /\ (ended ~> (pc = "returned" /\ mret = Ok(<<>>)))

\* main has returned after the error, messages having been yielded before it
C29_Witness ==
    /\ pc = "returned" /\ ended /\ mret = Ok(<<>>)
    /\ Len(arrived) = 3 /\ arrived[3].kind = "error"
    /\ Len(yielded) = 2

\* the rows the calls cs of write_sensor_data have inserted, in order
RECURSIVE RowsOf(_)
RowsOf(cs) ==
    IF cs = <<>> THEN <<>>
    ELSE SubSeq(cs[1].events, 1, cs[1].n) \o RowsOf(Tail(cs))

FailedCalls == {i \in DOMAIN written : written[i].ret.kind = "err"}

\* C30: the i-th call of write_sensor_data of main is for the event of the
\* i-th yielded message alone, and the next message is taken only when the
\* call has returned; a failed write is logged once and the loop goes on: main
\* returns only when the stream has ended.  A call inserts its events in
\* order: the table holds, call after call, the events before the first
\* failing insert, all of them when the call returns Ok, and an empty list
\* returns Ok.
C30_WriteEachOnce ==
    /\ db = RowsOf(written)
    /\ \A i \in DOMAIN written :
        LET c == written[i]
        IN  /\ c.ret.kind = "ok" => c.n = Len(c.events)
            /\ c.ret.kind = "err" => c.n < Len(c.events)
            /\ c.ret.kind = "none" =>
                    /\ i = Len(written) /\ pc \in {"insert", "inserting"}
                    /\ c.n + Len(pending) = Len(c.events)
                    /\ pending = SubSeq(c.events, c.n + 1, Len(c.events))
    /\ pc = "inserted" =>
            (written[1].events = <<>> => written[1].ret = Ok(<<>>))
    /\ pc \in {"next", "take", "insert", "wrote", "returned"} =>
        /\ Len(written) = IF pc = "take" THEN Len(yielded) - 1 ELSE Len(yielded)
        /\ \A i \in DOMAIN written :
                written[i].events = <<into_event(yielded[i])>>
        /\ logged = Cardinality(FailedCalls)
                        - (IF pc = "wrote" /\ wret.kind = "err" THEN 1 ELSE 0)
        /\ mret # NoResult => ended

\* main: a write failed and was logged, and the next message was written
C30_Witness ==
    /\ pc = "next" /\ ~ended
    /\ Len(yielded) = 2 /\ Len(written) = 2
    /\ written[1].ret.kind = "err" /\ written[2].ret.kind = "ok"
    /\ db = <<into_event(yielded[2])>>
    /\ logged = 1

HexDigits == Range(LowerHex) \cup Range(UpperHex)

\* six groups of two hex digits with a ':' between them: 17 characters
ColonSeparated(mac) ==
    /\ Len(mac) = 17
    /\ \A i \in 1..17 : IF i % 3 = 0 THEN mac[i] = ":" ELSE mac[i] \in HexDigits

\* C24: is_valid_mac_format is true exactly for the strings of 17 characters
\* made of six groups of two hex digits, upper or lower case, separated by
\* ':'; every other string is rejected.
C24_MacFormat ==
    (pc = "utils" /\ request.route = "is_valid_mac_format"
        /\ response # NoResponse)
        => (response.val <=> ColonSeparated(request.mac))

\* a lower-case MAC has been accepted
C24_Witness ==
    /\ pc = "utils" /\ request.route = "is_valid_mac_format"
    /\ response = Ok(TRUE)
    /\ \E i \in DOMAIN request.mac : request.mac[i] = "a"

\* C25: for an input that starts with neither test prefix, the output of
\* sanitize_mac_for_logging is the first 12 characters followed by "XX:XX"
\* when the input has at least 17 characters and "XX:XX:XX:XX:XX:XX"
\* otherwise; a test MAC is returned unchanged.
C25_LastOctetsHidden ==
    (pc = "utils" /\ request.route = "sanitize_mac_for_logging"
        /\ response # NoResponse)
        => LET mac == request.mac
           IN  response =
                 Ok(IF starts_with(mac, TestPrefixA) \/ starts_with(mac, TestPrefixF)
                    THEN mac
                    ELSE IF Len(mac) >= 17
                    THEN SubSeq(mac, 1, 12) \o <<"X", "X", ":", "X", "X">>
                    ELSE <<"X", "X", ":", "X", "X", ":", "X", "X", ":", "X", "X", ":", "X", "X", ":", "X", "X">>)

\* C23: get_sensor_history answers BAD_REQUEST, without querying the store,
\* whenever the MAC is not of the valid format, a supplied limit is outside
\* 1..10000, a supplied start or end does not parse, or the effective start
\* is not before the effective end; otherwise it queries the store and
\* answers INTERNAL_SERVER_ERROR when the query fails and the readings when
\* it succeeds.
C23_HistoryValidation ==
    (pc = "api" /\ request.route = "history" /\ response # NoResponse) =>
        LET req == request
            unparsed ==
                \/ is_some(req.start) /\ parse_datetime(req.start[1]).kind = "err"
                \/ is_some(req.end) /\ parse_datetime(req.end[1]).kind = "err"
            start == IF is_some(req.start) THEN parse_datetime(req.start[1]).val
                     ELSE req.now - 3600
            end == IF is_some(req.end) THEN parse_datetime(req.end[1]).val
                   ELSE req.now + req.elapsed
            refused ==
                \/ ~ColonSeparated(req.mac)
                \/ is_some(req.limit) /\ req.limit[1] \notin 1..10000
                \/ unparsed
                \/ start >= end
        IN  IF refused THEN response = Status("BAD_REQUEST", FALSE)
            ELSE IF req.store = "fails"
            THEN response = Status("INTERNAL_SERVER_ERROR", TRUE)
            ELSE response = Status("OK", TRUE)

\* C26: every sensor_mac the ingestion pipeline has persisted is accepted by
\* is_valid_mac_format.
C26_StoredMacAccepted ==
    \A i \in DOMAIN db : is_valid_mac_format(db[i].sensor_mac)

\* C27: for every parameter triple within the bounds the estimate is
\* answered, no product having overflowed, with total_readings =
\* (31536000 / interval_seconds) * sensor_count * retention_years; every
\* other triple is answered BAD_REQUEST before the estimate is computed.
C27_EstimateWithoutOverflow ==
    (pc = "api" /\ request.route = "estimate" /\ response # NoResponse) =>
        LET sc == IF is_some(request.sensor_count)
                  THEN request.sensor_count[1] ELSE 10
            iv == IF is_some(request.interval_seconds)
                  THEN request.interval_seconds[1] ELSE 10
            ry == IF is_some(request.retention_years)
                  THEN request.retention_years[1] ELSE 5
        IN  IF sc \in 1..10000 /\ iv \in 1..86400 /\ ry \in 1..100
            THEN /\ response.status = "OK"
                 /\ ~response.body.overflowed
                 /\ response.body.total_readings.neg = FALSE
                 /\ response.body.total_readings.mag =
                        MulDigits(MulDigits(Digits(31536000 \div iv), ry, 0), sc, 0)
            ELSE response = Status("BAD_REQUEST", FALSE)

\* C28: the router of the binary and the library router answer every
\* request with the same status code.
C28_RoutersEquivalent ==
    (pc = "api" /\ response # NoResponse /\ response_bin # NoResponse)
        => response_bin.status = response.status

====
